---- MODULE Spec2Model ----
(***************************************************************************)
(* Agent-MemoryForge: the vector-indexed memory store (VectorMemory in     *)
(* agent_memory_system.py): the faiss index, the position -> vector_id     *)
(* mapping, the vector_metadata table, the _needs_save flag and the two    *)
(* snapshot files vector_index.faiss / vector_mapping.json.                *)
(***************************************************************************)
EXTENDS Integers, Sequences, FiniteSets, TLC

\* ---------------------------------------------------------------- bounds
MaxVectors == 2          \* vectors the in-memory index may hold
MaxId      == 2          \* vector_id values the generator can produce: 1..MaxId
MaxK       == 2          \* largest k passed to retrieve
dimension  == 1          \* self.dimension, the length of a vector (1024 in the deployment)

\* ------------------------------------------------------ program constants
max_retries    == 10     \* identifier existence checks in store
max_db_retries == 5      \* insert attempts in store
OverFetch      == 2      \* retrieve searches k * 2 neighbours

\* ------------------------------------------------------------ input sets
Texts   == {"a", "b"}
Types   == {"x", "y"}                       \* memory_type values (categories)
Ids     == 1..MaxId
NoFilter == "None"                          \* filter_by_type = None
\* A snapshot file: absent, or present with its content.
Absent  == [st |-> "absent", data |-> <<>>]
File(data) == [st |-> "ok", data |-> data]
NULL    == "NULL"

\* The metadata bags callers pass.
EmptyBag == [key \in {} |-> ""]
SrcBag  == [key \in {"src"} |-> "u"]
\* The (memory_type, text, metadata) triples passed to store.
StoreArgs == { <<"x", "a", EmptyBag>>, <<"y", "a", SrcBag>>, <<"x", "b", SrcBag>> }
\* What another worker process stores under an id it shares with a call here.
OtherArgs == <<"y", "b", EmptyBag>>
EmptyMap == [pos \in {} |-> 0]
\* The request threads of the HTTP layer (store_memory is a def endpoint, run
\* in the server's thread pool).
Threads == {"t1", "t2"}
\* The locals of a thread that is in no store call.
\* db_retry is the loop variable of the insert loop, met what its last
\* attempt met, wait the sleep that followed it (tenths of a second); retry
\* is the loop variable of the existence checks.
NoLocal == [args |-> <<"", "", EmptyBag>>, vid |-> 0, pos |-> -1, at |-> -1,
            db_retry |-> 0, met |-> "none", wait |-> 0, retry |-> 0]

\* ----------------------------------------------------- embedding provider
\* The provider is a fixed function of the text (embedding_service.py); the
\* vectors of the two texts lie at different distances from each other.
Embed(text) == [i \in 1..dimension |-> IF text = "a" THEN 0 ELSE 2]
\* A reply whose vector has one component too many.
EmbedWrongDim(text) == Append(Embed(text), 0)
EmbedOutcomes == {"ok", "wrongdim", "unavailable", "malformed"}

\* IndexFlatL2 distance: squared L2.
RECURSIVE L2(_, _)
L2(u, v) == IF u = <<>> THEN 0
            ELSE (u[1] - v[1]) * (u[1] - v[1]) + L2(Tail(u), Tail(v))

VARIABLES
  index,            \* self.index: sequence of vectors; position p is index[p+1]
  vector_mapping,   \* self.vector_mapping: position -> vector_id
  table,            \* rows of vector_metadata
  has_content,      \* vector_metadata has a column named content
  needs_save,       \* self._needs_save
  disk_index,       \* vector_index.faiss: Absent or File(sequence of vectors)
  disk_mapping,     \* vector_mapping.json: Absent or File(string key -> vector_id)
  owner,            \* history: for each index position the store call that appended it
  disk_owner,       \* history: owner as of the index snapshot on disk
  last,             \* observation: the last operation, its arguments and its outcome
  pc,               \* for each request thread, the line of store it stands before
  loc,              \* for each request thread, the local variables of its store call
  \* embedding_service.py, OnnxModelManager
  loaded_models,    \* self.__loaded_models: model name -> the state of its OnnxModel
  svc_lock,         \* self.__lock: the thread that holds it, "free" when none does
  reqs,             \* for each request, where it stands in inference_async
  unl,              \* the unload thread: where it stands and its list idle_models
  \* task_todo_manager.py, TaskTodoManager
  completed_actions,  \* self.completed_actions
  current_task_id,    \* self.current_task_id
  actions_file,       \* completed_actions.json: Absent or File(completed_actions)
  marked              \* history: <<tool, params, result>> of the calls of
                      \* mark_action_completed with a success result in the current task

\* The vector memory store and its request threads.
vm_vars == <<index, vector_mapping, table, has_content, needs_save,
             disk_index, disk_mapping, owner, disk_owner, pc, loc>>
svc_vars == <<loaded_models, svc_lock, reqs, unl>>
todo_vars == <<completed_actions, current_task_id, actions_file, marked>>
vars == <<vm_vars, last, svc_vars, todo_vars>>

\* ------------------------------------------------- embedding service state
\* The model directories found by init_available_models, and a name that is
\* none of them.
AvailableModels == {"m1", "m2", "m3", "m4"}
ModelNames == AvailableModels \cup {"zz"}
\* OnnxModelManager.__init__(..., max_executors = 2, max_active_models = 3, ...)
max_active_models == 3
max_executors == 2
\* The requests POST /v1/embeddings that are handled at once.
Requests == {"r1", "r2"}
\* A request that has not arrived.  released tells whether release() has
\* run on the OnnxModel object the request holds.
NoReq == [pc |-> "idle", model_name |-> "", released |-> FALSE, out |-> "none"]
NoModels == [name \in {} |-> [idle |-> FALSE]]
\* OnnxModelManager.__init__ and the start of the unload thread (lifespan).
ServiceInit ==
  /\ loaded_models = NoModels
  /\ svc_lock = "free"
  /\ reqs = [r \in Requests |-> NoReq]
  /\ unl = [pc |-> "sleep", idle_models |-> {}]

\* --------------------------------------------------- task todo manager state
\* The tool calls of the agent: a tool name and its arguments.
ToolCalls == {<<"search", [q |-> "a"]>>,
              <<"search", [city |-> "x", q |-> "a"]>>,
              <<"book", [q |-> "a"]>>}
ToolResults == {[status |-> "success", data |-> "d1"],
                [status |-> "error", data |-> "d1"]}
TaskIds == {"task_1", "task_2"}
NoTask == "None"
NoResult == [status |-> "None", data |-> "None"]
NoActions == [hash \in {} |-> NoResult]
\* completed_actions.json after a write that was cut off.
Truncated == [st |-> "truncated", data |-> <<>>]
\* self.completed_actions = {} : a dict without the key "actions".
EmptyDict == [has_actions |-> FALSE, task_id |-> NoTask, actions |-> NoActions]
\* TaskTodoManager.__init__ in a workspace without completed_actions.json.
TodoInit ==
  /\ completed_actions = EmptyDict
  /\ current_task_id = NoTask
  /\ actions_file = Absent
  /\ marked = {}

ntotal == Len(index)

\* retrieve changes nothing in the store (RetrieveOp leaves every variable but
\* the observation unchanged), so a run that goes on after a retrieve visits
\* the same store states as the run without it: the model takes a retrieve as
\* the last operation of a run, and Running holds until then.
Running == last.op # "retrieve"

\* ------------------------------------------------------- metadata table
\* SELECT COUNT(*) FROM vector_metadata WHERE vector_id = ?
CountRows(tbl, vid) == Cardinality({r \in tbl : r.vector_id = vid})
\* vector_id INTEGER PRIMARY KEY: an insert of an existing id is refused
\* (mutant: the table has no primary key)
UniqueViolationNoKey(tbl, vid) == FALSE
UniqueViolation(tbl, vid) == \E r \in tbl : r.vector_id = vid

\* ------------------------------------------------------------- JSON bag
\* json.dumps writes the pairs in dict order; json.loads rebuilds the dict.
KeyOrder == <<"src", "memory_type", "text">>
RECURSIVE DumpFrom(_, _)
DumpFrom(bag, i) ==
  IF i > Len(KeyOrder) THEN <<>>
  ELSE (IF KeyOrder[i] \in DOMAIN bag THEN << <<KeyOrder[i], bag[KeyOrder[i]]>> >> ELSE <<>>)
       \o DumpFrom(bag, i + 1)
JsonDumps(bag) == DumpFrom(bag, 1)
JsonLoads(js) ==
  [key \in {js[i][1] : i \in DOMAIN js} |->
     js[CHOOSE i \in DOMAIN js : js[i][1] = key /\ \A j \in DOMAIN js : js[j][1] = key => j <= i][2]]

\* (mutant: the text is not put into the bag)
WithTypeOnly(metadata, memory_type, text) ==
  [key \in DOMAIN metadata \cup {"memory_type"} |->
     IF key = "memory_type" THEN memory_type ELSE metadata[key]]
\* metadata['memory_type'] = memory_type ; metadata['text'] = text
WithTypeAndText(metadata, memory_type, text) ==
  [key \in DOMAIN metadata \cup {"memory_type", "text"} |->
     IF key = "memory_type" THEN memory_type
     ELSE IF key = "text" THEN text
     ELSE metadata[key]]

\* The row written by the INSERT of store: the text goes to column content.
NewRow(vid, memory_type, text, metadata) ==
  [vector_id |-> vid, memory_type |-> memory_type, text |-> NULL,
   content |-> text,
   metadata |-> JsonDumps(WithTypeAndText(metadata, memory_type, text))]

\* fetchone() returned None.
NoRow == [vector_id |-> 0, memory_type |-> NULL, text |-> NULL, content |-> NULL,
          metadata |-> <<>>]

MapSetAlone(m, pos, vid) == [p \in {pos} |-> vid]
\* self.vector_mapping[pos] = vid (lines 337 and 367): one entry of the dict
\* is set, the others stay.
MapSet(m, pos, vid) == [p \in DOMAIN m \cup {pos} |-> IF p = pos THEN vid ELSE m[p]]

Init ==
  /\ index = <<>>
  /\ vector_mapping = EmptyMap
  /\ table = {}
  /\ has_content = FALSE
  /\ needs_save = FALSE
  /\ disk_index = Absent
  /\ disk_mapping = Absent
  /\ owner = <<>>
  /\ disk_owner = <<>>
  /\ last = [op |-> "init"]
  /\ pc = [t \in Threads |-> "idle"]
  /\ loc = [t \in Threads |-> NoLocal]
  /\ ServiceInit
  /\ TodoInit

\* unified_data_injector.py adds the column content to vector_metadata.
InjectorSchema ==
  /\ Running
  /\ ~has_content
  /\ has_content' = TRUE
  /\ last' = [op |-> "schema"]
  /\ UNCHANGED <<index, vector_mapping, table, needs_save, disk_index,
                 disk_mapping, owner, disk_owner, pc, loc>>
  /\ UNCHANGED <<svc_vars, todo_vars>>

\* ------------------------------------------------------------------ store
\* Lines 322-333: the candidate id is checked against the table up to
\* max_retries times.  cands is the set of values the current candidate may
\* have; the result is every way the loop can end.
RECURSIVE IdCheckLoop(_, _, _)
IdCheckLoop(retry, cands, tbl) ==
  LET free  == {v \in cands : CountRows(tbl, v) = 0}
      taken == cands \ free
  IN  {[st |-> "ok", vid |-> v] : v \in free}
      \cup (IF taken = {} THEN {}
            ELSE IF retry = max_retries - 1 THEN {[st |-> "id_exhausted", vid |-> 0]}
            ELSE IdCheckLoop(retry + 1, Ids, tbl))

\* Lines 347-370: the insert loop.  vids is the set of values vector_id may
\* have at attempt db_retry.  Each attempt meets no column content
\* (OperationalError, raised at once), a locked database (retried while
\* db_retry < max_db_retries - 1), a uniqueness violation (a new id is drawn
\* and written to the mapping, retried likewise) or succeeds.  vid is the
\* value left in vector_mapping[current_index_pos].
RECURSIVE InsertLoop(_, _, _, _)
InsertLoop(db_retry, vids, tbl, content_col) ==
  LET free  == {v \in vids : ~UniqueViolation(tbl, v)}
      taken == vids \ free
      more  == db_retry < max_db_retries - 1
      redrawn == IF taken = {} THEN {} ELSE Ids
  IN  IF ~content_col
      THEN {[st |-> "insert_error", vid |-> v] : v \in vids}
      ELSE {[st |-> "ok", vid |-> v] : v \in free}
           \cup (IF more
                 THEN InsertLoop(db_retry + 1, vids \cup redrawn, tbl, content_col)
                 ELSE {[st |-> "insert_locked", vid |-> v] : v \in vids}
                      \cup {[st |-> "insert_unique", vid |-> v] : v \in redrawn})

\* faiss index.add asserts that the vector has the index dimension.
AddAccepts(vec) == Len(vec) = dimension

\* The order of the steps of store (lines 317, 322-333, 336-337, 340,
\* 347-370, 375).  A step is passed when the call did not stop at it or
\* before it.
\* (mutant: the mapping is written before the id is allocated)
StoreOrderMapFirst == <<"embed", "map", "alloc", "add", "insert", "dirty">>
StoreOrder == <<"embed", "alloc", "map", "add", "insert", "dirty">>
StepPos(step) == CHOOSE i \in DOMAIN StoreOrder : StoreOrder[i] = step
Passed(step, stopped) == stopped = "none" \/ StepPos(step) < StepPos(stopped)

\* History kept for each index position: the arguments and the id of the
\* store call that appended the vector, NoCall when that call failed.
NoCall == [vid |-> 0, memory_type |-> NULL, text |-> NULL, metadata |-> EmptyBag]
Call(vid, memory_type, text, metadata) ==
  [vid |-> vid, memory_type |-> memory_type, text |-> text, metadata |-> metadata]

\* (mutant: line 367 is missing, the mapping keeps the id that collided)
MappedIdStale(checked_id, inserted_id) == checked_id
\* Line 367: after a uniqueness violation the new id is written to the
\* mapping, so the entry holds the id the insert loop ended with.
MappedId(checked_id, inserted_id) == inserted_id

\* None, as an id: no vector_id is 0.
None == 0
\* store has no return statement but the bare return of line 333: a call
\* that does not raise returns None.
StoreReturns(vector_id) == None
\* Line 333 returns and line 375 ends the body; every other way out is an
\* exception (lines 312, 314, 340, 362, 370).
StoreRaises(status) == status \notin {"ok", "id_exhausted"}
\* store_memory (lines 541-550): orchestrator.store returned -> success,
\* an exception -> HTTP 500.
StoreMemoryAnswer(status) == IF StoreRaises(status) THEN "500" ELSE "success"

\* (mutant: the flag is left as it was)
NeedsSaveAfterStoreKept(flag) == flag
\* Line 375, the last statement of store: self._needs_save = True
NeedsSaveAfterStore(flag) == TRUE

\* VectorMemory.store(memory_type, text, metadata).  emb is the provider's
\* behaviour, first the candidate id of line 322 (0 when the call does not
\* get there), alloc the way the existence checks end, raced tells whether
\* another worker process (running the same store, hence only on a table
\* with the column content) inserts a row under the same id between the
\* check and the insert, ins the way the insert loop ends.
Store(memory_type, text, metadata, emb, first, alloc, raced, ins) ==
  LET embedding == IF emb = "wrongdim" THEN EmbedWrongDim(text) ELSE Embed(text)
      stopped == IF emb \in {"unavailable", "malformed"} THEN "embed"
                 ELSE IF alloc.st # "ok" THEN "alloc"
                 ELSE IF ~AddAccepts(embedding) THEN "add"
                 ELSE IF ins.st # "ok" THEN "insert"
                 ELSE "none"
      status == CASE stopped = "embed" -> "embed_" \o emb
                  [] stopped = "alloc" -> alloc.st
                  [] stopped = "add" -> "add_failed"
                  [] OTHER -> ins.st
      current_index_pos == ntotal
      reached_insert == Passed("insert", stopped) \/ stopped = "insert"
      vector_id == IF reached_insert THEN ins.vid ELSE alloc.vid
      mapped_id == IF reached_insert THEN MappedId(alloc.vid, ins.vid) ELSE alloc.vid
      others == IF raced /\ Passed("alloc", stopped)
                THEN {NewRow(alloc.vid, OtherArgs[1], OtherArgs[2], OtherArgs[3])}
                ELSE {}
      \* a candidate of this call was the id of a row of the table
      collided == \/ first # 0 /\ CountRows(table, first) # 0
                  \/ raced /\ reached_insert
  IN
  /\ Running
  /\ ntotal < MaxVectors
  /\ vector_mapping' = IF Passed("map", stopped)
                       THEN MapSet(vector_mapping, current_index_pos, mapped_id)
                       ELSE vector_mapping
  /\ index' = IF Passed("add", stopped) THEN Append(index, embedding) ELSE index
  /\ owner' = IF Passed("add", stopped)
              THEN Append(owner, IF stopped = "none"
                                 THEN Call(vector_id, memory_type, text, metadata)
                                 ELSE NoCall)
              ELSE owner
  /\ table' = table \cup others \cup
              (IF Passed("insert", stopped)
               THEN {NewRow(vector_id, memory_type, text, metadata)} ELSE {})
  /\ needs_save' = IF Passed("dirty", stopped) THEN NeedsSaveAfterStore(needs_save)
                   ELSE needs_save
  /\ last' = [op |-> "store", status |-> status, pos |-> current_index_pos,
              vid |-> IF Passed("map", stopped) THEN mapped_id ELSE 0,
              collided |-> collided,
              regenerated |-> reached_insert /\ ins.vid # alloc.vid,
              raised |-> StoreRaises(status),
              ret |-> IF StoreRaises(status) THEN None ELSE StoreReturns(vector_id),
              answer |-> StoreMemoryAnswer(status)]
  /\ UNCHANGED <<has_content, disk_index, disk_mapping, disk_owner, pc, loc>>
  /\ UNCHANGED <<svc_vars, todo_vars>>

NoAlloc == [st |-> "none", vid |-> 0]
\* The values the candidate of line 322 is drawn from: every id without a
\* row, and one id with a row (which row the candidate meets makes no
\* difference to the call).
FirstCandidates(tbl) ==
  LET taken == {v \in Ids : CountRows(tbl, v) # 0}
  IN  (Ids \ taken) \cup (IF taken = {} THEN {} ELSE {CHOOSE v \in taken : TRUE})

StoreOp ==
  \/ \E emb \in {"unavailable", "malformed"} :
       Store("x", "a", EmptyBag, emb, 0, NoAlloc, FALSE, NoAlloc)
  \/ \E first \in FirstCandidates(table) :
       \E alloc \in {o \in IdCheckLoop(0, {first}, table) : o.st # "ok"} :
         Store("x", "a", EmptyBag, "ok", first, alloc, FALSE, NoAlloc)
  \/ \E args \in StoreArgs, raced \in {FALSE, has_content},
        first \in FirstCandidates(table) :
       \E alloc \in {o \in IdCheckLoop(0, {first}, table) : o.st = "ok"} :
         \/ Store(args[1], args[2], args[3], "wrongdim", first, alloc, raced, NoAlloc)
         \/ \E ins \in InsertLoop(0, {alloc.vid},
                                  IF raced
                                  THEN table \cup {NewRow(alloc.vid, OtherArgs[1],
                                                          OtherArgs[2], OtherArgs[3])}
                                  ELSE table,
                                  has_content) :
              Store(args[1], args[2], args[3], "ok", first, alloc, raced, ins)

\* ------------------------------------------------------------------ flush
\* json.dump writes the integer positions as string keys; __init__ reads them
\* back with int(k).
Digits == <<"0", "1", "2", "3", "4", "5", "6", "7", "8", "9">>
RECURSIVE StrOfInt(_)
StrOfInt(n) == IF n < 10 THEN Digits[n + 1]
               ELSE StrOfInt(n \div 10) \o Digits[(n % 10) + 1]
IntOfStr(str) == CHOOSE n \in 0..(MaxVectors + 1) : StrOfInt(n) = str
DumpMapping(m) ==
  [key \in {StrOfInt(p) : p \in DOMAIN m} |-> m[IntOfStr(key)]]
\* (mutant: the file is not read)
LoadMappingNothing(data) == EmptyMap
\* Lines 278-282: json.load, then the keys are turned back into integers.
LoadMapping(data) ==
  [pos \in {IntOfStr(key) : key \in DOMAIN data} |-> data[StrOfInt(pos)]]

\* How the write of the two snapshot files can end: "ok", the index write
\* fails ("index_failed", nothing written), or the index is written and the
\* write of the mapping fails ("mapping_failed").
WriteOutcomes == {"ok", "index_failed", "mapping_failed"}

\* (mutant: the early return is missing)
SkipSaveNever(flag) == FALSE
\* Lines 379-380: if not self._needs_save: return
SkipSave(flag) == ~flag
\* (mutant: the flag is cleared in a finally clause)
FlagAfterSaveCleared(outcome, flag) == FALSE
\* Line 391 stands after both writes inside the try: the flag is cleared only
\* when neither write raised.
FlagAfterSave(outcome, flag) == IF outcome = "ok" THEN FALSE ELSE flag
\* (mutant: the mapping is not dumped)
WrittenIndexOnly(outcome) ==
  IF outcome \in {"ok", "mapping_failed"} THEN {"index"} ELSE {}
\* The snapshot files a call has written.
Written(outcome) ==
  CASE outcome = "ok" -> {"index", "mapping"}
    [] outcome = "mapping_failed" -> {"index"}
    [] OTHER -> {}
\* Lines 380, 392-393 and the end of the body: the exception is caught and
\* printed, and every path returns None.
SaveReturns(outcome) == "None"
\* The status of the flush this one follows directly, "none" after another
\* operation.
PrevFlush == IF last.op = "flush" THEN last.status ELSE "none"

\* VectorMemory._save_index_and_mapping / save_if_needed
Flush(outcome) ==
  /\ Running
  /\ IF SkipSave(needs_save)
     THEN /\ last' = [op |-> "flush", status |-> "noop", wrote |-> {},
                      ret |-> SaveReturns("noop"), after |-> PrevFlush]
          /\ UNCHANGED <<disk_index, disk_mapping, disk_owner, needs_save>>
     ELSE /\ disk_index' = IF "index" \in Written(outcome) THEN File(index) ELSE disk_index
          /\ disk_owner' = IF "index" \in Written(outcome) THEN owner ELSE disk_owner
          /\ disk_mapping' = IF "mapping" \in Written(outcome)
                             THEN File(DumpMapping(vector_mapping))
                             ELSE disk_mapping
          /\ needs_save' = FlagAfterSave(outcome, needs_save)
          /\ last' = [op |-> "flush", status |-> outcome, wrote |-> Written(outcome),
                      ret |-> SaveReturns(outcome), after |-> PrevFlush]
  /\ UNCHANGED <<index, vector_mapping, table, has_content, owner, pc, loc>>
  /\ UNCHANGED <<svc_vars, todo_vars>>

FlushOp == \E outcome \in WriteOutcomes : Flush(outcome)

\* ---------------------------------------------------------------- restart
\* The process ends (its in-memory state is lost) and VectorMemory.__init__
\* runs again on the files on disk (lines 264-286).
\* Lines 270-286 compare neither the two files nor the loaded sizes, and no
\* path of __init__ raises on what was loaded: the store starts serving.
StartupOutcome == "serving"

Restart ==
  /\ Running
  /\ index' = IF disk_index = Absent THEN <<>> ELSE disk_index.data
  /\ owner' = IF disk_index = Absent THEN <<>> ELSE disk_owner
  /\ vector_mapping' = IF disk_mapping = Absent THEN EmptyMap
                       ELSE LoadMapping(disk_mapping.data)
  /\ needs_save' = FALSE
  /\ last' = [op |-> "restart", status |-> StartupOutcome, after |-> PrevFlush]
  /\ UNCHANGED <<table, has_content, disk_index, disk_mapping, disk_owner, pc, loc>>
  /\ UNCHANGED <<svc_vars, todo_vars>>

\* --------------------------------------------------------------- retrieve
Dist(qvec, pos) == L2(qvec, index[pos + 1])

\* index.search(query, n): the labels of the n nearest vectors, ascending by
\* distance, equal distances in any order, -1 where the index has fewer than
\* n vectors.
RECURSIVE SearchFrom(_, _, _)
SearchFrom(qvec, rest, n) ==
  IF n = 0 THEN {<<>>}
  ELSE IF rest = {} THEN {<<-1>> \o tl : tl \in SearchFrom(qvec, rest, n - 1)}
  ELSE UNION { {<<p>> \o tl : tl \in SearchFrom(qvec, rest \ {p}, n - 1)} :
               p \in {c \in rest : \A o \in rest : Dist(qvec, c) <= Dist(qvec, o)} }
Search(qvec, n) == SearchFrom(qvec, 0..(ntotal - 1), n)

\* SELECT metadata, memory_type FROM vector_metadata WHERE vector_id = ?
\* (fetchone: the first matching row, NoRow for None)
FetchOne(tbl, vid) ==
  IF \E r \in tbl : r.vector_id = vid
  THEN CHOOSE r \in tbl : r.vector_id = vid
  ELSE NoRow

\* (mutant: the comparison is inverted)
FilterRejectsSame(filter_by_type, memory_type) ==
  filter_by_type # NoFilter /\ memory_type = filter_by_type
\* Line 414: if filter_by_type and memory_type != filter_by_type: continue
FilterRejects(filter_by_type, memory_type) ==
  filter_by_type # NoFilter /\ memory_type # filter_by_type

\* (mutant: one result too many)
EnoughLate(results, k) == Len(results) > k
\* Lines 404-405: if len(results) >= k: break
Enough(results, k) == Len(results) >= k

\* (mutant: the walk ends at the first hit without mapping entry or row)
RECURSIVE WalkStopsAtGap(_, _, _, _, _, _)
WalkStopsAtGap(hits, i, results, qvec, k, filter_by_type) ==
  IF i > Len(hits) \/ Enough(results, k) THEN results
  ELSE LET idx == hits[i] IN
    IF idx \notin DOMAIN vector_mapping THEN results
    ELSE LET row == FetchOne(table, vector_mapping[idx]) IN
      IF row = NoRow THEN results
      ELSE IF FilterRejects(filter_by_type, row.memory_type)
      THEN WalkStopsAtGap(hits, i + 1, results, qvec, k, filter_by_type)
      ELSE WalkStopsAtGap(hits, i + 1,
                Append(results, [metadata |-> JsonLoads(row.metadata),
                                 score |-> Dist(qvec, idx),
                                 pos |-> idx]),
                qvec, k, filter_by_type)

\* Lines 403-416: the walk over the hits; pos is kept with each result to
\* tell which hit it came from.
RECURSIVE Walk(_, _, _, _, _, _)
Walk(hits, i, results, qvec, k, filter_by_type) ==
  IF i > Len(hits) \/ Enough(results, k) THEN results
  ELSE LET idx == hits[i] IN
    IF idx \notin DOMAIN vector_mapping
    THEN Walk(hits, i + 1, results, qvec, k, filter_by_type)
    ELSE LET row == FetchOne(table, vector_mapping[idx]) IN
      IF row = NoRow
      THEN Walk(hits, i + 1, results, qvec, k, filter_by_type)
      ELSE IF FilterRejects(filter_by_type, row.memory_type)
      THEN Walk(hits, i + 1, results, qvec, k, filter_by_type)
      ELSE Walk(hits, i + 1,
                Append(results, [metadata |-> JsonLoads(row.metadata),
                                 score |-> Dist(qvec, idx),
                                 pos |-> idx]),
                qvec, k, filter_by_type)

\* The store call a retrieve follows directly, when that call succeeded.
PrevStore ==
  IF last.op = "store" /\ last.status = "ok"
  THEN [op |-> "store", status |-> "ok", pos |-> last.pos]
  ELSE [op |-> "other", status |-> "", pos |-> 0]

\* VectorMemory.retrieve(query_text, k, filter_by_type)
\* (mutant: retrieve marks the snapshot dirty)
FlagAfterRetrieveSet(flag) == TRUE
\* Lines 399-418: no statement of retrieve assigns self._needs_save.
FlagAfterRetrieve(flag) == flag

Retrieve(query_text, k, filter_by_type, emb) ==
  /\ Running
  /\ IF emb \in {"unavailable", "malformed"}
     THEN last' = [op |-> "retrieve", status |-> "embed_" \o emb]
     ELSE IF emb = "wrongdim"
     THEN last' = [op |-> "retrieve", status |-> "search_failed"]
     ELSE \E hits \in Search(Embed(query_text), k * OverFetch) :
            last' = [op |-> "retrieve", status |-> "ok", prev |-> PrevStore,
                     query_text |-> query_text, k |-> k,
                     filter_by_type |-> filter_by_type, hits |-> hits,
                     results |-> Walk(hits, 1, <<>>, Embed(query_text), k,
                                      filter_by_type)]
  /\ needs_save' = FlagAfterRetrieve(needs_save)
  /\ UNCHANGED <<index, vector_mapping, table, has_content,
                 disk_index, disk_mapping, owner, disk_owner, pc, loc>>
  /\ UNCHANGED <<svc_vars, todo_vars>>

\* What retrieve(query_text, k, filter_by_type) can return in the current
\* state when the provider answers.
ResultsOf(query_text, k, filter_by_type) ==
  {Walk(hits, 1, <<>>, Embed(query_text), k, filter_by_type) :
     hits \in Search(Embed(query_text), k * OverFetch)}

RetrieveOp ==
  \/ \E emb \in EmbedOutcomes \ {"ok"} : Retrieve("a", 1, NoFilter, emb)
  \/ \E query_text \in Texts, k \in 1..MaxK, filter_by_type \in Types \cup {NoFilter} :
       Retrieve(query_text, k, filter_by_type, "ok")

Next ==
  \/ InjectorSchema
  \/ StoreOp
  \/ FlushOp
  \/ Restart
  \/ RetrieveOp

Spec == Init /\ [][Next]_vars

\* ------------------------------------------------ store, line by line
\* Two requests to /store handled at once: VectorMemory.store takes no lock,
\* so the threads take turns between any two of its statements.  The
\* embedding request of these calls succeeds, and each call is followed here
\* from the existence checks to line 375.
InFlight(t) == pc[t] # "idle"
\* Calls that have not appended their vector yet.
BeforeAdd == {t \in Threads : pc[t] \in {"read", "map", "add"}}

InitThreads ==
  /\ index = <<>>
  /\ vector_mapping = EmptyMap
  /\ table = {}
  /\ has_content = TRUE
  /\ needs_save = FALSE
  /\ disk_index = Absent
  /\ disk_mapping = Absent
  /\ owner = <<>>
  /\ disk_owner = <<>>
  /\ last = [op |-> "init"]
  /\ pc = [t \in Threads |-> "idle"]
  /\ loc = [t \in Threads |-> NoLocal]
  /\ ServiceInit
  /\ TodoInit

\* Lines 317-333: the embedding, the candidate and the existence checks.
T_Alloc(t) ==
  /\ Running
  /\ pc[t] = "idle"
  /\ ntotal + Cardinality(BeforeAdd) < MaxVectors
  /\ \E args \in StoreArgs, first \in FirstCandidates(table) :
       \E alloc \in IdCheckLoop(0, {first}, table) :
         IF alloc.st = "ok"
         THEN /\ loc' = [loc EXCEPT ![t] = [NoLocal EXCEPT !.args = args,
                                                             !.vid = alloc.vid]]
              /\ pc' = [pc EXCEPT ![t] = "read"]
         ELSE /\ loc' = [loc EXCEPT ![t] = [NoLocal EXCEPT !.args = args]]
              /\ pc' = [pc EXCEPT ![t] = "returned"]
  /\ UNCHANGED <<index, vector_mapping, table, has_content, needs_save,
                 disk_index, disk_mapping, owner, disk_owner, last>>
  /\ UNCHANGED <<svc_vars, todo_vars>>

\* Line 333, the bare return, and the end of the request.
T_Return(t) ==
  /\ Running
  /\ pc[t] = "returned"
  /\ loc' = [loc EXCEPT ![t] = NoLocal]
  /\ pc' = [pc EXCEPT ![t] = "idle"]
  /\ UNCHANGED <<index, vector_mapping, table, has_content, needs_save,
                 disk_index, disk_mapping, owner, disk_owner, last>>
  /\ UNCHANGED <<svc_vars, todo_vars>>

\* Line 336: current_index_pos = self.index.ntotal
T_ReadPos(t) ==
  /\ Running
  /\ pc[t] = "read"
  /\ loc' = [loc EXCEPT ![t].pos = ntotal]
  /\ pc' = [pc EXCEPT ![t] = "map"]
  /\ UNCHANGED <<index, vector_mapping, table, has_content, needs_save,
                 disk_index, disk_mapping, owner, disk_owner, last>>
  /\ UNCHANGED <<svc_vars, todo_vars>>

\* Line 337: self.vector_mapping[current_index_pos] = vector_id
T_MapWrite(t) ==
  /\ Running
  /\ pc[t] = "map"
  /\ vector_mapping' = MapSet(vector_mapping, loc[t].pos, loc[t].vid)
  /\ pc' = [pc EXCEPT ![t] = "add"]
  /\ UNCHANGED <<index, table, has_content, needs_save,
                 disk_index, disk_mapping, owner, disk_owner, last, loc>>
  /\ UNCHANGED <<svc_vars, todo_vars>>

\* Line 340: self.index.add(...).  The vector lands at the position the
\* index has now (at), whatever position the thread read on line 336.
T_Add(t) ==
  /\ Running
  /\ pc[t] = "add"
  /\ index' = Append(index, Embed(loc[t].args[2]))
  /\ owner' = Append(owner, NoCall)
  /\ loc' = [loc EXCEPT ![t].at = ntotal]
  /\ pc' = [pc EXCEPT ![t] = "insert"]
  /\ UNCHANGED <<vector_mapping, table, has_content, needs_save,
                 disk_index, disk_mapping, disk_owner, last>>
  /\ UNCHANGED <<svc_vars, todo_vars>>

\* (mutant: the same wait after every attempt)
BackoffFlat(db_retry) == 1
\* Line 360: time.sleep(0.1 * (db_retry + 1)), in tenths of a second.
Backoff(db_retry) == db_retry + 1

\* Lines 348-370: one pass of the insert loop with vector_id = vid.  locked
\* tells whether sqlite answers 'database is locked', new_id is the id line
\* 366 would draw.  next is how the pass ends: the break of line 355, the
\* continue of line 361 or 369, or a raise (lines 362, 370).
InsertAttempt(db_retry, vid, tbl, content_col, locked, new_id) ==
  LET more == db_retry < max_db_retries - 1
  IN  IF ~content_col
      THEN [next |-> "raise", met |-> "insert_error", vid |-> vid, wait |-> 0]
      ELSE IF locked
      THEN [next |-> IF more THEN "continue" ELSE "raise", met |-> "insert_locked",
            vid |-> vid, wait |-> IF more THEN Backoff(db_retry) ELSE 0]
      ELSE IF UniqueViolation(tbl, vid)
      THEN [next |-> IF more THEN "continue" ELSE "raise", met |-> "insert_unique",
            vid |-> new_id, wait |-> 0]
      ELSE [next |-> "break", met |-> "ok", vid |-> vid, wait |-> 0]

\* Lines 347-370, one pass of the loop per step: another connection to the
\* database file may hold the lock at any attempt.  After a uniqueness
\* violation line 367 has written the new id to
\* vector_mapping[current_index_pos].  An exception leaves store: the locals
\* are gone, met tells which exception is on its way to the caller.
T_Insert(t) ==
  /\ Running
  /\ pc[t] = "insert"
  /\ \E locked \in BOOLEAN, new_id \in Ids :
       LET a == InsertAttempt(loc[t].db_retry, loc[t].vid, table, has_content,
                              locked, new_id)
       IN  /\ vector_mapping' = IF a.met = "insert_unique"
                                THEN MapSet(vector_mapping, loc[t].pos,
                                            MappedId(loc[t].vid, a.vid))
                                ELSE vector_mapping
           /\ IF a.next = "break"
              THEN /\ table' = table \cup {NewRow(a.vid, loc[t].args[1], loc[t].args[2],
                                                   loc[t].args[3])}
                   /\ owner' = [owner EXCEPT ![loc[t].at + 1] =
                                    Call(a.vid, loc[t].args[1], loc[t].args[2],
                                         loc[t].args[3])]
                   /\ loc' = [loc EXCEPT ![t].met = a.met]
                   /\ pc' = [pc EXCEPT ![t] = "dirty"]
              ELSE /\ UNCHANGED <<table, owner>>
                   /\ IF a.next = "continue"
                      THEN /\ loc' = [loc EXCEPT ![t].vid = a.vid,
                                                 ![t].db_retry = loc[t].db_retry + 1,
                                                 ![t].met = a.met,
                                                 ![t].wait = a.wait]
                           /\ pc' = pc
                      ELSE /\ loc' = [loc EXCEPT ![t] = [NoLocal EXCEPT !.met = a.met]]
                           /\ pc' = [pc EXCEPT ![t] = "raised"]
  /\ UNCHANGED <<index, has_content, needs_save,
                 disk_index, disk_mapping, disk_owner, last>>
  /\ UNCHANGED <<svc_vars, todo_vars>>

\* The exception reaches store_memory, which answers HTTP 500 (lines
\* 547-550): the request is over.
T_Raise(t) ==
  /\ Running
  /\ pc[t] = "raised"
  /\ loc' = [loc EXCEPT ![t] = NoLocal]
  /\ pc' = [pc EXCEPT ![t] = "idle"]
  /\ UNCHANGED <<index, vector_mapping, table, has_content, needs_save,
                 disk_index, disk_mapping, owner, disk_owner, last>>
  /\ UNCHANGED <<svc_vars, todo_vars>>

\* Line 375: self._needs_save = True, and the call returns.
T_Dirty(t) ==
  /\ Running
  /\ pc[t] = "dirty"
  /\ needs_save' = NeedsSaveAfterStore(needs_save)
  /\ loc' = [loc EXCEPT ![t] = NoLocal]
  /\ pc' = [pc EXCEPT ![t] = "idle"]
  /\ UNCHANGED <<index, vector_mapping, table, has_content,
                 disk_index, disk_mapping, owner, disk_owner, last>>
  /\ UNCHANGED <<svc_vars, todo_vars>>

\* A third request thread runs retrieve between two steps of the others.
NextThreads ==
  \/ \E t \in Threads : T_Alloc(t)
  \/ \E t \in Threads : T_Return(t)
  \/ \E t \in Threads : T_ReadPos(t)
  \/ \E t \in Threads : T_MapWrite(t)
  \/ \E t \in Threads : T_Add(t)
  \/ \E t \in Threads : T_Insert(t)
  \/ \E t \in Threads : T_Raise(t)
  \/ \E t \in Threads : T_Dirty(t)
  \/ RetrieveOp

SpecThreads == InitThreads /\ [][NextThreads]_vars

\* ================================================================ claims
Positions == 0..(ntotal - 1)
HasRow(tbl, vid) == \E r \in tbl : r.vector_id = vid
StoreDone(st) == last.op = "store" /\ last.status = st
RetrieveDone == last.op = "retrieve" /\ last.status = "ok"

\* C1: every ordinal position p with 0 <= p < index size has an entry in the
\* Position Map, in every state reachable by store, retrieve, flush and
\* restart operations, failing ones included.
C1_EveryPositionMapped == \A p \in Positions : p \in DOMAIN vector_mapping

\* C2: after a store call that returned successfully the Position Map has as
\* many entries as the index has vectors.
C2_MapSizeAfterStore ==
  StoreDone("ok") => Cardinality(DOMAIN vector_mapping) = ntotal

\* C3: no two successfully stored records share a record_id: the table never
\* holds two rows with one id, and the map entries of two successfully stored
\* records never hold the same id.
C3_IdsUnique ==
  /\ \A r1, r2 \in table : r1.vector_id = r2.vector_id => r1 = r2
  /\ \A p, q \in Positions \cap DOMAIN vector_mapping :
       (p # q /\ owner[p + 1] # NoCall /\ owner[q + 1] # NoCall)
         => vector_mapping[p] # vector_mapping[q]
C3_Witness ==
  /\ StoreDone("ok")
  /\ \E p, q \in Positions \cap DOMAIN vector_mapping :
       p # q /\ owner[p + 1] # NoCall /\ owner[q + 1] # NoCall
  /\ Cardinality(table) = 2

\* C4: the only path of store that leaves a Position Map entry whose id has
\* no row in the Metadata Table is a failure at the table insert.
InsertFailures == {"insert_locked", "insert_unique", "insert_error"}
C4_OnlyInsertFailureLeavesOrphan ==
  [][(last'.op = "store" /\ last'.status \notin InsertFailures)
       => \A p \in DOMAIN vector_mapping' :
            HasRow(table', vector_mapping'[p])
            \/ (p \in DOMAIN vector_mapping /\ vector_mapping[p] = vector_mapping'[p])]_vars

\* C5: a store call that fails at the embedding request or at identifier
\* allocation leaves the index, the Position Map, the Metadata Table and the
\* dirty flag unchanged.
EarlyFailures == {"embed_unavailable", "embed_malformed", "id_exhausted"}
C5_EarlyFailureChangesNothing ==
  [][(last'.op = "store" /\ last'.status \in EarlyFailures)
       => UNCHANGED <<index, vector_mapping, table, needs_save>>]_vars
C5_Witness ==
  /\ StoreDone("id_exhausted")
  /\ ntotal > 0
  /\ needs_save

\* ------------------------------------------------------- retrieve claims
QVec == Embed(last.query_text)
ResultPos == [i \in DOMAIN last.results |-> last.results[i].pos]
RowAt(idx) == FetchOne(table, vector_mapping[idx])
\* A hit that retrieve has to return: mapped, with a row, of the category asked for.
ValidHit(idx, filter) ==
  /\ idx \in DOMAIN vector_mapping
  /\ HasRow(table, vector_mapping[idx])
  /\ filter = NoFilter \/ RowAt(idx).memory_type = filter
ValidHits == SelectSeq(last.hits, LAMBDA idx : ValidHit(idx, last.filter_by_type))

\* The retrieve follows a successful store and asks for the stored text,
\* without a filter or with the stored category.
StoredCall == owner[last.prev.pos + 1]
RoundTripCase ==
  /\ RetrieveDone
  /\ last.prev.op = "store" /\ last.prev.status = "ok"
  /\ last.query_text = StoredCall.text
  /\ last.filter_by_type \in {NoFilter, StoredCall.memory_type}
ExpectedBag ==
  ("memory_type" :> StoredCall.memory_type) @@ ("text" :> StoredCall.text)
    @@ StoredCall.metadata
ReturnedTiedFirst ==
  \E i \in DOMAIN last.results :
    /\ last.results[i].metadata = ExpectedBag
    /\ \A j \in 1..i : last.results[j].score = 0
AtDistanceZero == {p \in Positions : Dist(QVec, p) = 0}

\* C6 (as stated): after store(C, T, M) succeeds, retrieve with query T
\* returns, as first or tied-first result at distance 0, the bag M extended
\* with the category C and the text T.
C6_RoundTrip == RoundTripCase => ReturnedTiedFirst
\* C6 (amended): the same, provided the index holds at most k vectors at
\* distance 0 from the embedding of T.
C6_RoundTripWithinK ==
  (RoundTripCase /\ Cardinality(AtDistanceZero) <= last.k) => ReturnedTiedFirst
C6_Witness ==
  /\ RoundTripCase
  /\ Cardinality(AtDistanceZero) = 2 /\ last.k = 2
  /\ StoredCall.metadata # EmptyBag
  /\ ntotal = 2

\* C7: every result of retrieve(q, k, category_filter = c) is a record whose
\* stored category equals c.
C7_FilterCorrect ==
  (RetrieveDone /\ last.filter_by_type # NoFilter)
    => \A i \in DOMAIN last.results :
         /\ RowAt(last.results[i].pos).memory_type = last.filter_by_type
         /\ last.results[i].metadata["memory_type"] = last.filter_by_type
C7_Witness ==
  /\ RetrieveDone /\ last.filter_by_type # NoFilter
  /\ last.results # <<>>
  /\ \E i \in DOMAIN last.hits :
       /\ ValidHit(last.hits[i], NoFilter)
       /\ RowAt(last.hits[i]).memory_type # last.filter_by_type

\* C8: retrieve returns at most k results and exactly the first k (or all,
\* when fewer) of the 2k nearest index hits that have a Position Map entry,
\* a Metadata Table row and the category asked for.
C8_FirstKOfValidHits ==
  RetrieveDone =>
    /\ last.hits \in Search(QVec, 2 * last.k)
    /\ Len(last.results) <= last.k
    /\ Len(last.results) = IF Len(ValidHits) < last.k THEN Len(ValidHits) ELSE last.k
    /\ \A i \in DOMAIN last.results :
         /\ last.results[i].pos = ValidHits[i]
         /\ last.results[i].score = Dist(QVec, ValidHits[i])
         /\ last.results[i].metadata = JsonLoads(RowAt(ValidHits[i]).metadata)
\* One record of the category asked for, one of another, k = 2: one result.
C8_Witness ==
  /\ RetrieveDone /\ last.filter_by_type # NoFilter
  /\ Len(last.results) = 1 /\ last.k = 2
  /\ \E i \in DOMAIN last.hits :
       /\ ValidHit(last.hits[i], NoFilter)
       /\ RowAt(last.hits[i]).memory_type # last.filter_by_type

\* Positions whose vector was appended by a successful store of the category.
StoredOf(filter) ==
  {p \in Positions : /\ owner[p + 1] # NoCall
                     /\ filter = NoFilter \/ owner[p + 1].memory_type = filter}
IsSubSeq(small, big) ==
  \E f \in [DOMAIN small -> DOMAIN big] :
    /\ \A i \in DOMAIN small : big[f[i]] = small[i]
    /\ \A i, j \in DOMAIN small : i < j => f[i] < f[j]

\* C9: the results appear in the order of the index hits, and the result
\* list is a prefix of the nearest-neighbour order of the stored records of
\* the filtered category.
C9_PrefixOfNearestOrder ==
  RetrieveDone =>
    /\ IsSubSeq(ResultPos, last.hits)
    /\ \A i \in DOMAIN ResultPos : ResultPos[i] \in StoredOf(last.filter_by_type)
    /\ \A i, j \in DOMAIN ResultPos :
         i < j => /\ ResultPos[i] # ResultPos[j]
                  /\ Dist(QVec, ResultPos[i]) <= Dist(QVec, ResultPos[j])
    /\ \A i \in DOMAIN ResultPos :
         \A p \in StoredOf(last.filter_by_type) :
           (\A j \in DOMAIN ResultPos : ResultPos[j] # p)
             => Dist(QVec, ResultPos[i]) <= Dist(QVec, p)

\* C10: retrieve does not fail on a hit without Position Map entry or
\* without row: it skips the hit, and a valid later hit is still returned.
ValidBefore(i) ==
  Cardinality({j \in 1..(i - 1) : ValidHit(last.hits[j], last.filter_by_type)})
C10_SkipsAndContinues ==
  (last.op = "retrieve" /\ last.status \notin {"embed_unavailable", "embed_malformed",
                                               "search_failed"})
    => /\ last.status = "ok"
       /\ \A i \in DOMAIN last.hits :
            (ValidHit(last.hits[i], last.filter_by_type) /\ ValidBefore(i) < last.k)
              => \E j \in DOMAIN last.results : last.results[j].pos = last.hits[i]
C10_Witness ==
  /\ RetrieveDone
  /\ \E i, j \in DOMAIN last.hits :
       /\ i < j
       /\ last.hits[i] \in Positions
       /\ last.hits[i] \notin DOMAIN vector_mapping
       /\ \E n \in DOMAIN last.results : last.results[n].pos = last.hits[j]
C10_WitnessNoRow ==
  /\ RetrieveDone
  /\ \E i, j \in DOMAIN last.hits :
       /\ i < j
       /\ last.hits[i] \in DOMAIN vector_mapping
       /\ ~HasRow(table, vector_mapping[last.hits[i]])
       /\ \E n \in DOMAIN last.results : last.results[n].pos = last.hits[j]

\* ---------------------------------------------------------- flush claims
FlushFailures == {"index_failed", "mapping_failed"}
FlushDone == last.op = "flush"

\* C11 (as stated): a flush that directly follows a flush, and a flush called
\* while the dirty flag is clear, writes nothing.
C11_SecondFlushWritesNothing ==
  [][(last'.op = "flush" /\ (last.op = "flush" \/ ~needs_save))
       => /\ last'.status = "noop" /\ last'.wrote = {}
          /\ UNCHANGED <<disk_index, disk_mapping>>]_vars
\* C11 (amended): a flush that directly follows a flush that did not fail,
\* and a flush called while the dirty flag is clear, writes nothing.
C11_FlushAfterCompletedFlushWritesNothing ==
  [][(last'.op = "flush"
      /\ ((last.op = "flush" /\ last.status \notin FlushFailures) \/ ~needs_save))
       => /\ last'.status = "noop" /\ last'.wrote = {}
          /\ UNCHANGED <<disk_index, disk_mapping>>]_vars
C11_Witness ==
  /\ FlushDone /\ last.after = "ok" /\ last.status = "noop"
  /\ disk_index # Absent /\ disk_mapping # Absent /\ ntotal > 0

\* C12: a flush that fails to write leaves the in-memory index and Position
\* Map unchanged and the dirty flag set, and the flush after it attempts the
\* write again.
C12_FailedFlushKeepsStateAndFlag ==
  [][/\ (last'.op = "flush" /\ last'.status \in FlushFailures)
          => (UNCHANGED <<index, vector_mapping>> /\ needs_save')
     /\ (last.op = "flush" /\ last.status \in FlushFailures /\ last'.op = "flush")
          => last'.status # "noop"]_vars
C12_Witness ==
  /\ FlushDone /\ last.after \in FlushFailures /\ last.status = "ok"
  /\ ntotal > 0 /\ disk_mapping = File(DumpMapping(vector_mapping))

\* C13: a flush whose snapshot write fails reports the failure to its
\* caller: what it returns differs from what a successful flush returns.
C13_FlushFailureReported ==
  (FlushDone /\ last.status \in FlushFailures) => last.ret # SaveReturns("ok")

\* -------------------------------------------------------- restart claims
\* C14: after successful stores, a successful flush and a restart, the
\* reloaded index and Position Map equal the ones held before the restart,
\* and every retrieve returns what it returned before the restart.
C14_ReloadEqualsFlushed ==
  [][(last'.op = "restart" /\ last.op = "flush" /\ last.status = "ok")
       => /\ index' = index
          /\ vector_mapping' = vector_mapping
          /\ \A query_text \in Texts, k \in 1..MaxK, filter \in Types \cup {NoFilter} :
               ResultsOf(query_text, k, filter)' = ResultsOf(query_text, k, filter)]_vars
C14_Witness ==
  /\ last.op = "restart" /\ last.after = "ok"
  /\ ntotal >= 2
  /\ \A p \in Positions : owner[p + 1] # NoCall /\ HasRow(table, owner[p + 1].vid)
  /\ \E p, q \in Positions : owner[p + 1].text # owner[q + 1].text

\* C15: a store started from an index snapshot and a Position Map that
\* disagree serves no store and no retrieve.
Mismatch == DOMAIN vector_mapping # Positions
C15_NoServingFromMismatch ==
  [][(last.op = "restart" /\ Mismatch)
       => ~(last'.op \in {"store", "retrieve"} /\ last'.status = "ok")]_vars

\* ------------------------------------------------- store outcome claims
\* The call whose vector store has just appended, and the row it inserted.
NewCall == owner'[Len(owner')]
NewCallRow == NewRow(NewCall.vid, NewCall.memory_type, NewCall.text, NewCall.metadata)
\* The call succeeded with one new position, one new row, and an id no
\* earlier row has.
SucceededOnce ==
  /\ last'.status = "ok"
  /\ Len(index') = Len(index) + 1
  /\ vector_mapping'[last'.pos] = NewCall.vid
  /\ {r \in table' : r.vector_id = NewCall.vid} = {NewCallRow}
  /\ NewCallRow \notin table
  /\ \A r \in table' \ table : r = NewCallRow \/ r.memory_type = OtherArgs[1]
\* Failures of store that have nothing to do with identifiers.
OtherFailures == {"add_failed", "insert_locked", "insert_error"}
ExhaustedFailures == {"id_exhausted", "insert_unique"}

\* C16 (as stated): a store call given a candidate id equal to the id of a
\* stored record (and meeting no other failure) succeeds, creates exactly one
\* index position and one table row, and its final id differs from the
\* earlier record's.
C16_CollisionStillSucceeds ==
  [][(last'.op = "store" /\ last'.collided /\ last'.status \notin OtherFailures)
       => SucceededOnce]_vars
\* C16 (amended): the same, provided the call finds a free id before its
\* attempts are exhausted.
C16_CollisionSucceedsUnlessExhausted ==
  [][(last'.op = "store" /\ last'.collided
      /\ last'.status \notin OtherFailures \cup ExhaustedFailures)
       => SucceededOnce]_vars
C16_Witness ==
  /\ StoreDone("ok") /\ last.collided
  /\ Cardinality(table) >= 2
  /\ owner[Len(owner)].vid = vector_mapping[last.pos]

\* C17: when the allocation attempts are exhausted, store reports a failure
\* to its caller and /store does not answer success.
C17_ExhaustionReported ==
  StoreDone("id_exhausted") => (last.raised /\ last.answer # "success")

\* C20: a store call that succeeds returns the record_id under which the
\* row was inserted, the id the Position Map holds for the new position.
C20_ReturnsRecordId ==
  StoreDone("ok") => /\ last.ret = vector_mapping[last.pos]
                     /\ HasRow(table, last.ret)

\* ----------------------------------------------------- concurrency claims
PastRead == {t \in Threads : pc[t] \in {"map", "add", "insert", "dirty"}}
AllIdle == \A t \in Threads : ~InFlight(t)

\* C18: two store calls that run at once in one process do not interleave:
\* each call gets its own ordinal position, and after both finish the
\* Position Map maps each position to the id of the call whose vector sits
\* there.
C18_StoresDoNotInterleave ==
  /\ \A t, u \in PastRead : t # u => loc[t].pos # loc[u].pos
  /\ AllIdle => \A p \in Positions :
                  owner[p + 1] # NoCall
                    => (p \in DOMAIN vector_mapping /\ vector_mapping[p] = owner[p + 1].vid)

\* The store call that appended the vector at position p and has not
\* returned yet.
Appender(p) == {t \in Threads : InFlight(t) /\ loc[t].at = p}
BagOf(args) == WithTypeAndText(args[3], args[1], args[2])

\* C19: a retrieve that runs while a store call is between two of its steps
\* returns for the vector that call appended either nothing or the call's
\* own complete record.
C19_NoTornRecord ==
  (RetrieveDone /\ ~AllIdle)
    => \A i \in DOMAIN last.results :
         \A t \in Appender(last.results[i].pos) :
           /\ last.results[i].metadata = BagOf(loc[t].args)
           /\ RowAt(last.results[i].pos) =
                NewRow(loc[t].vid, loc[t].args[1], loc[t].args[2], loc[t].args[3])

\* ------------------------------------------------ store structure claims
\* Ways a store call ends that C21 sets aside: a failed embedding request,
\* exhausted existence checks, a refused vector, a lock, an id collision.
SetAsideByC21 == EarlyFailures \cup {"add_failed", "insert_locked", "insert_unique"}

\* C21: a store call that meets no lock and no id collision, also on a table
\* freshly created by __init__, inserts the row (record_id, category, text,
\* metadata with category and text) and succeeds, the source text being in
\* the column text.
C21_RowHasTextColumn ==
  (last.op = "store" /\ last.status \notin SetAsideByC21)
    => /\ last.status = "ok"
       /\ \E r \in table :
            /\ r.vector_id = owner[last.pos + 1].vid
            /\ r.memory_type = owner[last.pos + 1].memory_type
            /\ r.text = owner[last.pos + 1].text
            /\ r.metadata = JsonDumps(WithTypeAndText(owner[last.pos + 1].metadata,
                                                      owner[last.pos + 1].memory_type,
                                                      owner[last.pos + 1].text))

\* C22: the index append comes before the Position Map update: no reachable
\* state has a Position Map entry for a position at or beyond the index size.
C22_NoEntryBeyondIndex == \A p \in DOMAIN vector_mapping : p < ntotal

\* C23: an id once written to the Position Map is never chosen again: no two
\* positions of the Position Map hold the same id.
C23_MapIdsDistinct ==
  \A p, q \in DOMAIN vector_mapping : p # q => vector_mapping[p] # vector_mapping[q]

\* C24: after a store call that failed because its insert attempts were
\* exhausted, the id left in the Position Map for its position has no row,
\* at that moment and after a later store call.
InsertExhausted == {"insert_locked", "insert_unique"}
C24_FailedPositionHasNoRow ==
  [][/\ (last'.op = "store" /\ last'.status \in InsertExhausted)
          => ~HasRow(table', vector_mapping'[last'.pos])
     /\ (last.op = "store" /\ last.status \in InsertExhausted /\ last'.op = "store")
          => ~HasRow(table', vector_mapping'[last.pos])]_vars

\* C25: a store call that regenerated its id after a uniqueness violation
\* and then succeeded leaves the Position Map entry of its position equal to
\* the id of the row it inserted, and no entry of another position changed.
C25_RegeneratedIdIsMapped ==
  [][(last'.op = "store" /\ last'.status = "ok" /\ last'.regenerated)
       => /\ NewCallRow \in table' \ table
          /\ vector_mapping'[last'.pos] = NewCallRow.vector_id
          /\ \A p \in DOMAIN vector_mapping \ {last'.pos} :
               p \in DOMAIN vector_mapping' /\ vector_mapping'[p] = vector_mapping[p]]_vars
C25_Witness ==
  /\ StoreDone("ok") /\ last.regenerated /\ last.pos = 1
  /\ 0 \in DOMAIN vector_mapping
  /\ HasRow(table, vector_mapping[1])
  /\ owner[2].vid = vector_mapping[1]

\* C27: when the provider returns a vector of the wrong length, store fails
\* before the index, the Position Map or the table changed.
C27_WrongLengthChangesNothing ==
  [][(last'.op = "store" /\ last'.status = "add_failed")
       => /\ last'.raised
          /\ UNCHANGED <<index, vector_mapping>>
          /\ \A r \in table' \ table : r.memory_type = OtherArgs[1]]_vars

\* ------------------------------------------------ flush and frame claims
\* C28: after any flush attempt the two snapshot files on disk are both the
\* previous versions or both the new versions.
C28_SnapshotsSameGeneration ==
  [][last'.op = "flush"
       => \/ UNCHANGED <<disk_index, disk_mapping>>
          \/ /\ disk_index' = File(index)
             /\ disk_mapping' = File(DumpMapping(vector_mapping))]_vars

\* C29: store writes no snapshot file; a successful store leaves the dirty
\* flag set; a set flag stays set across store and retrieve calls and across
\* a flush whose writes fail, and a flush that completes its writes clears it.
C29_DirtyUntilFlushed ==
  [][/\ last'.op = "store" => UNCHANGED <<disk_index, disk_mapping>>
     /\ (last'.op = "store" /\ last'.status = "ok") => needs_save'
     /\ (needs_save /\ last'.op \in {"store", "retrieve"}) => needs_save'
     /\ (needs_save /\ last'.op = "flush")
          => (needs_save' <=> last'.status # "ok")]_vars
C29_Witness ==
  /\ StoreDone("insert_locked") /\ last.pos = 1
  /\ owner[1] # NoCall
  /\ needs_save
  /\ disk_index = Absent /\ disk_mapping = Absent

\* Position p holds the record of a store call that succeeded.
Succeeded(p) == owner[p + 1] # NoCall /\ p \in DOMAIN vector_mapping
RowsOf(tbl, vid) == {r \in tbl : r.vector_id = vid}
InsertPass(t) == pc[t] = "insert" /\ (pc'[t] # pc[t] \/ loc'[t] # loc[t])
OwnRow(t) == NewRow(loc[t].vid, loc[t].args[1], loc[t].args[2], loc[t].args[3])
\* C26: an insert that meets 'database is locked' is retried after a wait
\* that grows with the attempt number (attempt n is followed by n tenths of
\* a second); there are at most 5 attempts; an attempt that meets neither
\* the lock nor a taken id inserts the row and the call goes on to succeed;
\* when the fifth attempt meets the lock too the call raises to its caller
\* and no row is inserted.
C26_LockedInsertIsRetried ==
  [][\A t \in Threads : InsertPass(t)
       => /\ loc[t].db_retry + 1 <= max_db_retries
          /\ loc'[t].met = "insert_locked"
               => /\ table' = table
                  /\ \/ /\ pc'[t] = "insert"
                        /\ loc'[t].db_retry = loc[t].db_retry + 1
                        /\ loc'[t].db_retry < max_db_retries
                        /\ loc'[t].wait = loc'[t].db_retry
                        /\ loc'[t].wait > loc[t].wait
                     \/ /\ pc'[t] = "raised"
                        /\ loc[t].db_retry + 1 = max_db_retries
                        /\ StoreRaises(loc'[t].met)
                        /\ StoreMemoryAnswer(loc'[t].met) = "500"
          /\ (loc'[t].met # "insert_locked" /\ ~UniqueViolation(table, loc[t].vid))
               => /\ pc'[t] = "dirty"
                  /\ table' = table \cup {OwnRow(t)}]_vars
C26_Witness ==
  \E t, u \in Threads :
    /\ pc[t] = "raised" /\ loc[t].met = "insert_locked"
    /\ pc[u] = "dirty" /\ loc[u].wait = max_db_retries - 1
    /\ OwnRow(u) \in table
    /\ Cardinality(table) = 1

\* ------------------------------------------- pairing and dirtiness claims
\* No other writer has put a row into the table: it holds one row for each
\* position whose store call succeeded.
OnlyOwnRows == Cardinality(table) = Cardinality({p \in Positions : owner[p + 1] # NoCall})
\* C31: in every state reached by sequential store, flush and restart
\* operations, each result of retrieve for an index hit at position p carries
\* the metadata of the row inserted by the store call that appended the
\* vector at p.
C31_ResultIsOwnRecord ==
  (RetrieveDone /\ OnlyOwnRows)
    => \A i \in DOMAIN last.results :
         /\ owner[last.results[i].pos + 1] # NoCall
         /\ last.results[i].metadata =
              WithTypeAndText(owner[last.results[i].pos + 1].metadata,
                              owner[last.results[i].pos + 1].memory_type,
                              owner[last.results[i].pos + 1].text)

\* What __init__ would load from the snapshot files as they are.
LoadedIndex == IF disk_index = Absent THEN <<>> ELSE disk_index.data
LoadedMap == IF disk_mapping = Absent THEN EmptyMap ELSE LoadMapping(disk_mapping.data)
\* C32: whenever the index or the Position Map in memory differs from what
\* the snapshot files hold, the dirty flag is set, also after a store call
\* that appended a vector or changed the map and then failed.
C32_UnsavedChangeIsDirty ==
  (index # LoadedIndex \/ vector_mapping # LoadedMap) => needs_save

\* C33: retrieve, whether it returns results or fails at the embedding
\* request, leaves the index, the Position Map, the table, the dirty flag
\* and the snapshot files unchanged.
C33_RetrieveReadOnly ==
  [][last'.op = "retrieve"
       => UNCHANGED <<index, vector_mapping, table, needs_save,
                      disk_index, disk_mapping>>]_vars
C33_Witness ==
  /\ RetrieveDone /\ Len(last.results) = 2
  /\ needs_save /\ disk_index # Absent /\ Len(disk_index.data) = 1

\* ============================================= embedding_service.py
\* create_embeddings is an async endpoint: the requests are coroutines of one
\* event loop, so the statements of inference_async before its await run
\* without another request in between; the unload thread and the executor
\* threads run beside the loop.
InLoop(r) == reqs[r].pc = "unlocked"
\* (mutant: load_model does not look at the number of loaded models)
LimitReachedNever(n) == FALSE
\* Line 136: len(self.__loaded_models) >= self.__max_active_models
LimitReached(n) == n >= max_active_models

\* load_model (lines 134-150) called with the lock held: how the call ends
\* for model_name.
LoadOutcome(model_name) ==
  IF LimitReached(Cardinality(DOMAIN loaded_models)) THEN "too_many"
  ELSE IF model_name \notin AvailableModels THEN "unavailable"
  ELSE "loaded"
\* self.__loaded_models[model_name] = OnnxModel(...): the object is new, its
\* last access time is now.
WithModel(models, model_name) ==
  [name \in DOMAIN models \cup {model_name} |->
     IF name = model_name THEN [idle |-> FALSE] ELSE models[name]]
\* del self.__loaded_models[name]
WithoutModel(models, model_name) ==
  [name \in DOMAIN models \ {model_name} |-> models[name]]

\* inference_async, lines 167-169: with the lock, load the model unless it
\* is loaded.  A ValueError of load_model leaves inference_async.
R_Lookup(r, model_name) ==
  /\ reqs[r].pc = "idle"
  /\ \A q \in Requests : ~InLoop(q)
  /\ svc_lock = "free"
  /\ IF model_name \in DOMAIN loaded_models
     THEN /\ reqs' = [reqs EXCEPT ![r] = [NoReq EXCEPT !.pc = "unlocked",
                                                       !.model_name = model_name]]
          /\ UNCHANGED loaded_models
     ELSE IF LoadOutcome(model_name) = "loaded"
     THEN /\ loaded_models' = WithModel(loaded_models, model_name)
          /\ reqs' = [reqs EXCEPT ![r] = [NoReq EXCEPT !.pc = "unlocked",
                                                       !.model_name = model_name]]
     ELSE /\ reqs' = [reqs EXCEPT ![r] = [NoReq EXCEPT !.pc = "done",
                                                       !.model_name = model_name,
                                                       !.out = LoadOutcome(model_name)]]
          /\ UNCHANGED loaded_models
  /\ UNCHANGED <<svc_lock, unl>>
  /\ UNCHANGED <<vm_vars, last, todo_vars>>

\* Lines 171-173, after the lock was given back: the model object is taken
\* from the dict (KeyError when it is gone) and the inference is handed to
\* the executor.
R_Select(r) ==
  /\ reqs[r].pc = "unlocked"
  /\ reqs' = [reqs EXCEPT ![r] =
                IF reqs[r].model_name \in DOMAIN loaded_models
                THEN [reqs[r] EXCEPT !.pc = "queued"]
                ELSE [reqs[r] EXCEPT !.pc = "done", !.out = "key_error"]]
  /\ UNCHANGED <<loaded_models, svc_lock, unl>>
  /\ UNCHANGED <<vm_vars, last, todo_vars>>

Executing == {r \in Requests : reqs[r].pc = "running"}
\* OnnxModel.inference, lines 91-93, in an executor thread: the access time
\* of the object is set, then the tokenizer is called (TypeError when
\* release() has set it to None).
E_Start(r) ==
  /\ reqs[r].pc = "queued"
  /\ Cardinality(Executing) < max_executors
  /\ IF reqs[r].released
     THEN /\ reqs' = [reqs EXCEPT ![r].pc = "done", ![r].out = "released_error"]
          /\ UNCHANGED loaded_models
     ELSE /\ reqs' = [reqs EXCEPT ![r].pc = "running"]
          /\ loaded_models' = [loaded_models EXCEPT ![reqs[r].model_name].idle = FALSE]
  /\ UNCHANGED <<svc_lock, unl>>
  /\ UNCHANGED <<vm_vars, last, todo_vars>>

\* Lines 102-111: the session runs (AttributeError when release() has set it
\* to None) and the embeddings are returned.
E_Finish(r) ==
  /\ reqs[r].pc = "running"
  /\ reqs' = [reqs EXCEPT ![r].pc = "done",
                          ![r].out = IF reqs[r].released THEN "released_error" ELSE "ok"]
  /\ UNCHANGED <<loaded_models, svc_lock, unl>>
  /\ UNCHANGED <<vm_vars, last, todo_vars>>

\* create_embeddings answers (the embeddings, or HTTP 500).
R_Respond(r) ==
  /\ reqs[r].pc = "done"
  /\ reqs' = [reqs EXCEPT ![r] = NoReq]
  /\ UNCHANGED <<loaded_models, svc_lock, unl>>
  /\ UNCHANGED <<vm_vars, last, todo_vars>>

\* The requests that are between their lookup and the end of their
\* inference on the loaded object of model_name.
Using(model_name) ==
  {r \in Requests : /\ reqs[r].model_name = model_name
                    /\ reqs[r].pc \in {"unlocked", "queued", "running"}
                    /\ ~reqs[r].released}
\* More than max_idle_time passes since the last access of a loaded model.
\* A request is taken to last less than max_idle_time (300 s) from its
\* lookup to the end of its inference: the time does not run out while a
\* request uses the model.
Tick(model_name) ==
  /\ model_name \in DOMAIN loaded_models
  /\ ~loaded_models[model_name].idle
  /\ Using(model_name) = {}
  /\ loaded_models' = [loaded_models EXCEPT ![model_name].idle = TRUE]
  /\ UNCHANGED <<svc_lock, reqs, unl>>
  /\ UNCHANGED <<vm_vars, last, todo_vars>>

\* unload_idle_models, lines 155-159: after the sleep, with the lock, the
\* names of the idle models are collected.
U_Scan ==
  /\ unl.pc = "sleep"
  /\ svc_lock = "free"
  /\ svc_lock' = "unload"
  /\ unl' = [pc |-> "release",
             idle_models |-> {name \in DOMAIN loaded_models : loaded_models[name].idle}]
  /\ UNCHANGED <<loaded_models, reqs>>
  /\ UNCHANGED <<vm_vars, last, todo_vars>>

\* Lines 161-164, for one name of idle_models: release() sets the session
\* and the tokenizer of the object to None, and the name leaves the dict.
\* Every request that holds the object holds a released one.
U_Release(name) ==
  /\ unl.pc = "release"
  /\ name \in unl.idle_models
  /\ loaded_models' = WithoutModel(loaded_models, name)
  /\ reqs' = [r \in Requests |->
                IF reqs[r].model_name = name /\ reqs[r].pc \in {"queued", "running"}
                THEN [reqs[r] EXCEPT !.released = TRUE]
                ELSE reqs[r]]
  /\ unl' = [unl EXCEPT !.idle_models = unl.idle_models \ {name}]
  /\ UNCHANGED svc_lock
  /\ UNCHANGED <<vm_vars, last, todo_vars>>

\* The end of the with block: the lock is given back, the thread sleeps.
U_Unlock ==
  /\ unl.pc = "release"
  /\ unl.idle_models = {}
  /\ svc_lock' = "free"
  /\ unl' = [unl EXCEPT !.pc = "sleep"]
  /\ UNCHANGED <<loaded_models, reqs>>
  /\ UNCHANGED <<vm_vars, last, todo_vars>>

NextService ==
  \/ \E r \in Requests, model_name \in ModelNames : R_Lookup(r, model_name)
  \/ \E r \in Requests : R_Select(r)
  \/ \E r \in Requests : E_Start(r)
  \/ \E r \in Requests : E_Finish(r)
  \/ \E r \in Requests : R_Respond(r)
  \/ \E model_name \in AvailableModels : Tick(model_name)
  \/ U_Scan
  \/ \E name \in AvailableModels : U_Release(name)
  \/ U_Unlock

SpecService == Init /\ [][NextService]_vars

\* ------------------------------------------------ embedding service claims
\* The request holds the model object inference_async took for it and its
\* inference has not finished.
Selected(r) == reqs[r].pc \in {"queued", "running"}
\* C35: a model that inference_async has selected for a request is not
\* released or removed by the unload thread before the inference of that
\* request has finished: no request holds a released model, and none fails
\* because its model is gone.
C35_SelectedModelNotReleased ==
  \A r \in Requests :
    /\ Selected(r) => ~reqs[r].released
    /\ reqs[r].out \notin {"key_error", "released_error"}

\* C36: the number of loaded models never exceeds max_active_models; a
\* request for a model that is not loaded while the limit is reached fails
\* without loading it and without unloading a loaded model.
C36_LoadedModelsBounded ==
  [][/\ Cardinality(DOMAIN loaded_models') <= max_active_models
     /\ \A r \in Requests :
          (/\ reqs[r].pc = "idle" /\ reqs'[r].pc # "idle"
           /\ reqs'[r].model_name \notin DOMAIN loaded_models
           /\ Cardinality(DOMAIN loaded_models) >= max_active_models)
            => /\ reqs'[r].pc = "done"
               /\ reqs'[r].out = "too_many"
               /\ loaded_models' = loaded_models]_vars
C36_Witness ==
  \E r, q \in Requests :
    /\ reqs[r].out = "too_many" /\ reqs[r].model_name \in AvailableModels
    /\ reqs[q].pc = "running"
    /\ Cardinality(DOMAIN loaded_models) = max_active_models

\* ============================================= task_todo_manager.py
\* _generate_action_hash (lines 43-48): json.dumps(params, sort_keys=True)
\* writes the pairs in the order of their keys, the tool name is put in
\* front.  The first 12 hex digits of the md5 of that string are taken to
\* differ for the strings modelled here, so the string stands for its hash.
ParamKeyOrder == <<"city", "q">>
RECURSIVE SortedDumpFrom(_, _)
SortedDumpFrom(params, i) ==
  IF i > Len(ParamKeyOrder) THEN <<>>
  ELSE (IF ParamKeyOrder[i] \in DOMAIN params
        THEN << <<ParamKeyOrder[i], params[ParamKeyOrder[i]]>> >> ELSE <<>>)
       \o SortedDumpFrom(params, i + 1)
ActionHash(tool_name, params) == <<tool_name, SortedDumpFrom(params, 1)>>

\* _save_completed_actions (lines 35-41): the file is opened for writing and
\* the dict dumped; an exception is logged and swallowed.
SaveOutcomes == {"ok", "open_failed", "write_failed"}
Saved(outcome, data) ==
  CASE outcome = "ok" -> File(data)
    [] outcome = "write_failed" -> Truncated
    [] OTHER -> actions_file
\* _load_completed_actions (lines 25-33): the dict of the file, {} when
\* there is no file or json.load raises.
LoadedActions == IF actions_file.st = "ok" THEN actions_file.data ELSE EmptyDict

\* start_new_task (lines 50-91): a new id, a new dict with no actions.  The
\* file completed_actions.json is not written.
StartNewTask(task_id) ==
  /\ current_task_id' = task_id
  /\ completed_actions' = [has_actions |-> TRUE, task_id |-> task_id,
                           actions |-> NoActions]
  /\ marked' = {}
  /\ last' = [op |-> "start_new_task"]
  /\ UNCHANGED actions_file
  /\ UNCHANGED <<vm_vars, svc_vars>>

\* mark_action_completed (lines 104-123).  Without the key "actions" line 117
\* raises KeyError and nothing is recorded.
MarkActionCompleted(tool_name, params, result, outcome) ==
  IF ~completed_actions.has_actions
  THEN /\ last' = [op |-> "mark_action_completed", raised |-> TRUE]
       /\ UNCHANGED <<todo_vars, vm_vars, svc_vars>>
  ELSE LET h == ActionHash(tool_name, params)
           record == [tool_name |-> tool_name, params |-> params, result |-> result]
           acts == [k \in DOMAIN completed_actions.actions \cup {h} |->
                      IF k = h THEN record ELSE completed_actions.actions[k]]
       IN  /\ completed_actions' = [completed_actions EXCEPT !.actions = acts]
           /\ actions_file' = Saved(outcome, completed_actions')
           /\ marked' = IF result.status = "success"
                        THEN marked \cup {<<tool_name, params, result>>}
                        ELSE marked
           /\ last' = [op |-> "mark_action_completed", raised |-> FALSE]
           /\ UNCHANGED current_task_id
           /\ UNCHANGED <<vm_vars, svc_vars>>

\* complete_task (lines 184-206): with a current task the dict is saved,
\* then the id and the dict are reset; without one nothing is done.
CompleteTask(outcome) ==
  /\ IF current_task_id # NoTask
     THEN /\ actions_file' = Saved(outcome, completed_actions)
          /\ current_task_id' = NoTask
          /\ completed_actions' = EmptyDict
     ELSE UNCHANGED <<actions_file, current_task_id, completed_actions>>
  /\ marked' = {}
  /\ last' = [op |-> "complete_task"]
  /\ UNCHANGED <<vm_vars, svc_vars>>

\* The program is started again in the same workspace:
\* TaskTodoManager.__init__ (lines 18-23).
NewManager ==
  /\ current_task_id' = NoTask
  /\ completed_actions' = LoadedActions
  /\ last' = [op |-> "init"]
  /\ UNCHANGED <<actions_file, marked>>
  /\ UNCHANGED <<vm_vars, svc_vars>>

\* check_action_completed (lines 93-102: the record under the hash, None
\* without one) and should_skip_action (lines 216-226).
CheckActionCompleted(tool_name, params) ==
  IF /\ completed_actions.has_actions
     /\ ActionHash(tool_name, params) \in DOMAIN completed_actions.actions
  THEN completed_actions.actions[ActionHash(tool_name, params)]
  ELSE [tool_name |-> tool_name, params |-> params, result |-> NoResult]
ShouldSkipAction(tool_name, params) ==
  LET cached_result == CheckActionCompleted(tool_name, params)
      skip == cached_result.result.status = "success"
  IN  /\ last' = [op |-> "should_skip_action", tool_name |-> tool_name,
                   params |-> params, skip |-> skip,
                   result |-> IF skip THEN cached_result.result ELSE NoResult]
      /\ UNCHANGED <<todo_vars, vm_vars, svc_vars>>

NextTodo ==
  \/ \E task_id \in TaskIds : StartNewTask(task_id)
  \/ \E call \in ToolCalls, result \in ToolResults, outcome \in SaveOutcomes :
        MarkActionCompleted(call[1], call[2], result, outcome)
  \/ \E outcome \in SaveOutcomes : CompleteTask(outcome)
  \/ NewManager
  \/ \E call \in ToolCalls : ShouldSkipAction(call[1], call[2])

SpecTodo == Init /\ [][NextTodo]_vars

\* C37: should_skip_action(tool, params) returns (True, result) exactly when
\* mark_action_completed was called since the last start_new_task with the
\* same tool and params and a result of status success; after
\* start_new_task or complete_task no action recorded for an earlier task
\* is skipped.  Stated here is the half every reading of the claim has: an
\* action is skipped only if it was so marked in the current task, and the
\* result returned is one it was marked with.
C37_SkipsOnlyMarkedInTask ==
  (last.op = "should_skip_action" /\ last.skip)
    => <<last.tool_name, last.params, last.result>> \in marked
\* ------------------------------------- store, one loop pass per step
\* One store call followed through both of its loops a pass at a time, while
\* another worker process inserts rows into the same database file and may
\* hold its lock.
Caller == "t1"

\* (mutant: the tenth pass goes on like the nine before it)
CheckPassUnbounded(retry, vid, tbl, new_id) ==
  IF CountRows(tbl, vid) = 0
  THEN [next |-> "break", vid |-> vid]
  ELSE [next |-> "continue", vid |-> new_id]
\* Lines 325-333: one pass of the existence checks with candidate vid.  A
\* candidate without a row ends the loop (line 328); otherwise line 330 draws
\* new_id, and the tenth pass returns (lines 331-333).
CheckPass(retry, vid, tbl, new_id) ==
  IF CountRows(tbl, vid) = 0
  THEN [next |-> "break", vid |-> vid]
  ELSE IF retry = max_retries - 1
  THEN [next |-> "return", vid |-> new_id]
  ELSE [next |-> "continue", vid |-> new_id]

\* Lines 317-322: the embedding and the first candidate.
L_Begin(t) ==
  /\ Running
  /\ pc[t] = "idle"
  /\ ntotal + Cardinality(BeforeAdd) < MaxVectors
  /\ \E args \in StoreArgs, first \in Ids :
       loc' = [loc EXCEPT ![t] = [NoLocal EXCEPT !.args = args, !.vid = first]]
  /\ pc' = [pc EXCEPT ![t] = "check"]
  /\ UNCHANGED <<index, vector_mapping, table, has_content, needs_save,
                 disk_index, disk_mapping, owner, disk_owner, last>>
  /\ UNCHANGED <<svc_vars, todo_vars>>

\* Lines 325-333, one pass of the loop per step.
L_Check(t) ==
  /\ Running
  /\ pc[t] = "check"
  /\ \E new_id \in Ids :
       LET c == CheckPass(loc[t].retry, loc[t].vid, table, new_id)
       IN  /\ loc' = [loc EXCEPT ![t].vid = c.vid,
                                 ![t].retry = IF c.next = "continue"
                                              THEN loc[t].retry + 1
                                              ELSE loc[t].retry]
           /\ pc' = [pc EXCEPT ![t] = CASE c.next = "break"    -> "read"
                                        [] c.next = "continue" -> "check"
                                        [] c.next = "return"   -> "returned"]
  /\ UNCHANGED <<index, vector_mapping, table, has_content, needs_save,
                 disk_index, disk_mapping, owner, disk_owner, last>>
  /\ UNCHANGED <<svc_vars, todo_vars>>

\* Another worker process of the server commits a row of its own (the same
\* INSERT, lines 350-354, on its own connection to the file).
OtherProcess ==
  /\ Running
  /\ has_content
  /\ \E v \in Ids :
       /\ ~UniqueViolation(table, v)
       /\ table' = table \cup {NewRow(v, OtherArgs[1], OtherArgs[2], OtherArgs[3])}
  /\ UNCHANGED <<index, vector_mapping, has_content, needs_save,
                 disk_index, disk_mapping, owner, disk_owner, last, pc, loc>>
  /\ UNCHANGED <<svc_vars, todo_vars>>

\* The statements of the call: each returns (the SELECT and the INSERT give
\* up on their own, the sleep of line 360 is finite), and the thread of the
\* request keeps being scheduled.
CallStep ==
  \/ L_Check(Caller)
  \/ T_Return(Caller)
  \/ T_ReadPos(Caller)
  \/ T_MapWrite(Caller)
  \/ T_Add(Caller)
  \/ T_Insert(Caller)
  \/ T_Raise(Caller)
  \/ T_Dirty(Caller)

NextLoops ==
  \/ L_Begin(Caller)
  \/ L_Check(Caller)
  \/ T_Return(Caller)
  \/ T_ReadPos(Caller)
  \/ T_MapWrite(Caller)
  \/ T_Add(Caller)
  \/ T_Insert(Caller)
  \/ T_Raise(Caller)
  \/ T_Dirty(Caller)
  \/ OtherProcess

SpecLoops == InitThreads /\ [][NextLoops]_vars /\ WF_vars(CallStep)

\* ---------------------------------------------------- loop budget claim
\* Thread t makes a pass of the existence checks in this step.
CheckStep(t) == pc[t] = "check" /\ (pc'[t] # pc[t] \/ loc'[t] # loc[t])
\* C34: every store call ends, with success or failure, after at most 10
\* existence checks and at most 5 insert attempts in total, whatever mix of
\* locks and uniqueness violations the attempts meet: an attempt that meets
\* either kind of failure uses up one of the same 5.
C34_StoreLoopsBounded ==
  /\ [][\A t \in Threads :
          /\ CheckStep(t)
               => /\ loc[t].retry + 1 <= max_retries
                  /\ \/ pc'[t] \in {"read", "returned"}
                     \/ /\ pc'[t] = "check"
                        /\ loc'[t].retry = loc[t].retry + 1
          /\ InsertPass(t)
               => /\ loc[t].db_retry + 1 <= max_db_retries
                  /\ \/ pc'[t] \in {"dirty", "raised"}
                     \/ /\ pc'[t] = "insert"
                        /\ loc'[t].met \in {"insert_locked", "insert_unique"}
                        /\ loc'[t].db_retry = loc[t].db_retry + 1]_vars
  /\ \A t \in Threads : (pc[t] # "idle") ~> (pc[t] = "idle")
\* The tenth existence check passed, four insert attempts have failed (the
\* last on a taken id) and the fifth is about to be made.
C34_Witness ==
  /\ pc[Caller] = "insert"
  /\ loc[Caller].retry = max_retries - 1
  /\ loc[Caller].db_retry = max_db_retries - 1
  /\ loc[Caller].met = "insert_unique"
====
